---------------------------- MODULE Spec2Model ----------------------------
(***************************************************************************)
(* A model of lm-score: the LM_SCORE user-defined function (lm_score), the *)
(* two scorer modules (LMScorer, EnsembleScorer), the seed database        *)
(* (create_company_database), the benchmark driver (benchmark_lm_score,    *)
(* evaluate_single_item, save_results) and the report statistics           *)
(* (calculate_stats, load_and_analyze_results,                             *)
(* create_per_problem_visualization).                                      *)
(*                                                                         *)
(* The program is single-threaded: one operation runs at a time.  Five     *)
(* specifications share the variables:                                     *)
(*   Spec      - calls of lm_score and of EnsembleScorer.forward           *)
(*   SpecBench - create_company_database and benchmark runs                *)
(*   SpecStats - calculate_stats on bounded samples                        *)
(*   SpecReport - load_and_analyze_results and the per-problem matrices on *)
(*                bounded result arrays                                    *)
(*   SpecProcess - one process that either serves calls of lm_score and    *)
(*                forward or runs the benchmark                            *)
(***************************************************************************)
EXTENDS Integers, Sequences, FiniteSets, TLC

VARIABLES
    pc,         \* position of the scoring pipeline: idle, lm_score_wait, forward_loop, forward_wait, done
    op,         \* the operation in progress: none, lm_score, forward
    args,       \* lm_score: the argument tuple *args
    question,   \* lm_score: args[-1]; forward: the question parameter
    content,    \* lm_score: the joined content string
    prompt,     \* lm_score: the prompt f-string
    requests,   \* the prompts sent to the inference client by the operation in progress
    replies,    \* the outcomes the inference client gave, in order
    k,          \* EnsembleScorer.k
    i,          \* EnsembleScorer.forward: iterations of range(self.k) started
    scores,     \* EnsembleScorer.forward: the list scores
    ret,        \* how the operation ended: a returned value or a raised exception
    stdout,     \* what the operation printed
    served,     \* calls the process has finished before the one in progress
    schema,     \* company.db: the tables created, in creation order
    rows,       \* company.db: table name -> the rows of the table, in rowid order
    nCreate,    \* completed invocations of create_company_database
    bpc,        \* position of the benchmark run
    run_full,   \* benchmark_lm_score: the --full flag
    batch,      \* benchmark_lm_score: which of the six SELECT blocks is running (1..6)
    fetched,    \* benchmark_lm_score: rows of cursor.fetchall() not yet evaluated
    item,       \* evaluate_single_item: the locals of the row being evaluated
    results,    \* benchmark_lm_score: the list results
    saved,      \* the result file: "none" or the JSON array written
    bret,       \* how the benchmark run ended
    varied,     \* how many non-default model/judge/human outcomes the run has seen
    values,     \* calculate_stats: the argument
    stats,      \* calculate_stats: the returned (mean, error) and the locals n, std_err, t_value
    loaded,     \* the report: the result array json.load gave
    analysis,   \* load_and_analyze_results: the returned dictionary and the list judge_reasonable
    matrices,   \* create_per_problem_visualization: judge_matrix and human_matrix, one method
    config      \* the client configurations: the module-level lm, dspy.settings.lm, and the
                \* lm attribute of the scorer's and of the judge's predictor

scoreVars == <<pc, op, args, question, content, prompt, requests, replies, k, i, scores, ret, stdout, served>>
dbVars    == <<schema, rows, nCreate>>
benchVars == <<bpc, run_full, batch, fetched, item, results, saved, bret, varied>>
statVars  == <<values, stats>>
reportVars == <<loaded, analysis, matrices>>
cfgVars   == <<config>>
vars      == <<scoreVars, dbVars, benchVars, statVars, reportVars, cfgVars>>

-----------------------------------------------------------------------------
(* Bounds of the model *)

\* most arguments of one lm_score call
MaxArgs == 4
\* largest k an EnsembleScorer is constructed with
MaxK == 3
\* most calls of lm_score or forward one process makes after its first
MaxCalls == 2

-----------------------------------------------------------------------------
(* Python values and strings.  A string is a sequence of characters; a      *)
(* literal segment of an f-string is kept as one element.                   *)

PyNone     == [t |-> "None", s |-> <<>>, n |-> 0]
PyString(x) == [t |-> "str",  s |-> x,    n |-> 0]
PyInt(x)   == [t |-> "int",  s |-> <<>>, n |-> x]
PyBool(b)  == [t |-> "bool", s |-> <<>>, n |-> IF b THEN 1 ELSE 0]

DigitChar(d) == <<"0", "1", "2", "3", "4", "5", "6", "7", "8", "9">>[d + 1]

RECURSIVE NatDigits(_)
NatDigits(x) == IF x < 10 THEN <<DigitChar(x)>>
                ELSE Append(NatDigits(x \div 10), DigitChar(x % 10))

\* str(part) of lm_score.py:141 and the {question} conversion of the f-string
PyStr(v) ==
    CASE v.t = "str"  -> v.s
      [] v.t = "int"  -> IF v.n < 0 THEN <<"-">> \o NatDigits(0 - v.n) ELSE NatDigits(v.n)
      [] v.t = "bool" -> IF v.n = 1 THEN <<"T", "r", "u", "e">> ELSE <<"F", "a", "l", "s", "e">>
      [] v.t = "None" -> <<"N", "o", "n", "e">>

\* sep.join(strs)
RECURSIVE PyJoin(_, _)
PyJoin(sep, strs) ==
    IF strs = <<>> THEN <<>>
    ELSE IF Len(strs) = 1 THEN strs[1]
    ELSE strs[1] \o sep \o PyJoin(sep, Tail(strs))

\* the generator  str(part) for part in content_parts if part is not None
RECURSIVE StrNonNull(_)
StrNonNull(parts) ==
    IF parts = <<>> THEN <<>>
    ELSE IF Head(parts) = PyNone THEN StrNonNull(Tail(parts))
    ELSE <<PyStr(Head(parts))>> \o StrNonNull(Tail(parts))

\* content = " ".join(str(part) for part in content_parts if part is not None)
\* (faulty variant: a None part is joined as an empty string)
JoinContentMutEmpty(parts) ==
    PyJoin(<<" ">>, [x \in 1..Len(parts) |-> IF parts[x] = PyNone THEN <<>> ELSE PyStr(parts[x])])
JoinContent(parts) == PyJoin(<<" ">>, StrNonNull(parts))

PromptHead == <<"Based on the following content, answer this yes/no question: ">>
PromptMid  == <<"\n\nContent: ">>
PromptTail == <<"\n\nProvide a score from 0 to 10 ... Provide only a single number from 0 to 10.\nScore:">>

\* the prompt f-string of lm_score
BuildPrompt(q, c) == PromptHead \o PyStr(q) \o PromptMid \o c \o PromptTail

UpperLetters == <<"A", "B", "C", "D", "E", "F", "G", "H", "I", "J", "K", "L", "M",
                  "N", "O", "P", "Q", "R", "S", "T", "U", "V", "W", "X", "Y", "Z">>
LowerLetters == <<"a", "b", "c", "d", "e", "f", "g", "h", "i", "j", "k", "l", "m",
                  "n", "o", "p", "q", "r", "s", "t", "u", "v", "w", "x", "y", "z">>

LowerChar(c) ==
    IF \E x \in 1..26 : UpperLetters[x] = c
    THEN LowerLetters[CHOOSE x \in 1..26 : UpperLetters[x] = c]
    ELSE c

\* str.lower()
PyLower(str) == [x \in 1..Len(str) |-> LowerChar(str[x])]

IsSpace(c) == c \in {" ", "\t", "\n"}

\* str.strip(): leading and trailing whitespace removed
RECURSIVE LStrip(_)
LStrip(str) == IF str # <<>> /\ IsSpace(Head(str)) THEN LStrip(Tail(str)) ELSE str
RECURSIVE RStrip(_)
RStrip(str) ==
    IF str # <<>> /\ IsSpace(str[Len(str)]) THEN RStrip(SubSeq(str, 1, Len(str) - 1)) ELSE str
PyStrip(str) == RStrip(LStrip(str))

\* needle in hay, for strings
PyContains(hay, needle) ==
    \E off \in 0..(Len(hay) - Len(needle)) :
        SubSeq(hay, off + 1, off + Len(needle)) = needle

-----------------------------------------------------------------------------
(* The inference client: dspy.Predict("question -> answer: int") either     *)
(* returns a prediction whose answer is an integer, or raises.              *)

Answers == {-1, 0, 2, 5, 9, 10, 11}
Failures == {"transport", "parse"}
Ok(a)   == [ok |-> TRUE,  answer |-> a, error |-> "none"]
Fail(e) == [ok |-> FALSE, answer |-> 0, error |-> e]
Replies == {Ok(a) : a \in Answers} \cup {Fail(e) : e \in Failures}

Return(v) == [kind |-> "return", value |-> v, exc |-> "none"]
Raise(e)  == [kind |-> "raise",  value |-> 0, exc |-> e]
NoRet     == [kind |-> "none",   value |-> 0, exc |-> "none"]

\* lm = dspy.LM(model=..., api_base=SERVER_URL, api_key=API_TOKEN, ...)
PrimaryLm == [model |-> "openai/mlx-community/DeepSeek-R1-Distill-Qwen-7B-4bit",
              api_base |-> "SERVER_URL", api_key |-> "API_TOKEN"]
\* judge_lm = dspy.LM(model=JUDGE_MODEL, api_base=JUDGE_SERVER_URL, api_key=JUDGE_API_TOKEN, ...)
JudgeLm   == [model |-> "JUDGE_MODEL", api_base |-> "LM_AS_JUDGE_SERVER_URL",
              api_key |-> "LM_AS_JUDGE_API_TOKEN"]
\* a predictor whose lm attribute is not set
NoLm      == [model |-> "none", api_base |-> "none", api_key |-> "none"]

\* the state after lm_score.py is imported: lm is built, dspy.settings.configure(lm=lm)
\* has run, lm_scorer = LMScorer() has a predictor with no lm of its own, and no
\* judge exists
ConfigInit ==
    config = [lm |-> PrimaryLm, settings_lm |-> PrimaryLm, scorer_predictor_lm |-> NoLm,
              judge_predictor_lm |-> NoLm, judge_built |-> FALSE]

\* the configuration a call of a predictor is sent with: the predictor's lm when it
\* has one, dspy.settings.lm otherwise
PredictorLm(own, settings) == IF own # NoLm THEN own ELSE settings

\* LMJudge.__init__: self.predictor = dspy.Predict(...); self.predictor.lm = judge_lm
\* (faulty variants: the assignment is missing; the judge model is installed with
\* dspy.settings.configure(lm=judge_lm))
InstallJudgeLmMutSkip(cfg) == [cfg EXCEPT !.judge_built = TRUE]
InstallJudgeLmMutGlobal(cfg) ==
    [cfg EXCEPT !.settings_lm = JudgeLm, !.judge_built = TRUE]
InstallJudgeLm(cfg) ==
    [cfg EXCEPT !.judge_predictor_lm = JudgeLm, !.judge_built = TRUE]


-----------------------------------------------------------------------------
(* lm_score and the scorer modules (src/src/lm_score/lm_score.py)           *)

\* the score lm_score returns when the scorer raises
NeutralDefault == 5
\* the score EnsembleScorer.forward puts in the slot of a failed prediction
EnsembleDefault == 5

ArgValues == {PyNone, PyString(<<>>), PyString(<<"a", "b">>), PyInt(12), PyBool(TRUE)}
ArgTuples == UNION {[1..n -> ArgValues] : n \in 0..MaxArgs}
\* the k values an EnsembleScorer is constructed with (the constructor checks nothing)
KValues   == -1..MaxK
Questions == {<<"Q", "?">>}

ScoreInit ==
    /\ pc = "idle"
    /\ op = "none"
    /\ args = <<>>
    /\ question = <<>>
    /\ content = <<>>
    /\ prompt = <<>>
    /\ requests = <<>>
    /\ replies = <<>>
    /\ k = 0
    /\ i = 0
    /\ scores = <<>>
    /\ ret = NoRet
    /\ stdout = <<>>
    /\ served = 0

\* if len(args) < 2: raise TypeError
\* (faulty variant: the check lets a lone argument through)
ArgCountOkMutOne(a) == ~(Len(a) < 1)
ArgCountOk(a) == ~(Len(a) < 2)

\* content_parts = args[:-1]
ContentParts(a) == SubSeq(a, 1, Len(a) - 1)

\* lm_score up to the call of lm_scorer: the argument check, the prompt, the request
LmScoreCall(a) ==
    /\ pc = "idle"
    /\ op' = "lm_score"
    /\ args' = a
    /\ IF ArgCountOk(a)
       THEN /\ question' = PyStr(a[Len(a)])
            /\ content' = JoinContent(ContentParts(a))
            /\ prompt' = BuildPrompt(a[Len(a)], JoinContent(ContentParts(a)))
            \* lm_scorer(question=prompt): LMScorer.forward calls its predictor once
            /\ requests' = Append(requests, BuildPrompt(a[Len(a)], JoinContent(ContentParts(a))))
            /\ pc' = "lm_score_wait"
            /\ ret' = ret
       ELSE /\ ret' = Raise("TypeError")
            /\ pc' = "done"
            /\ UNCHANGED <<question, content, prompt, requests>>
    /\ UNCHANGED <<replies, k, i, scores, stdout, served>>
    /\ UNCHANGED <<dbVars, benchVars, statVars, reportVars, cfgVars>>

\* the try/except around lm_scorer and the two lines after it
\* (faulty variant: no except branch, the scorer's exception leaves lm_score)
LmScoreAfterMutRaise(r) ==
    IF r.ok THEN [ret |-> Return(r.answer), out |-> <<"usage">>]
    ELSE [ret |-> Raise(r.error), out |-> <<>>]
LmScoreAfter(r) ==
    IF r.ok THEN [ret |-> Return(r.answer), out |-> <<"usage">>]
    ELSE [ret |-> Return(NeutralDefault), out |-> <<"Warning">>]

\* lm_scorer returns or raises; lm_score prints and returns
LmScoreReply(r) ==
    /\ pc = "lm_score_wait"
    /\ replies' = Append(replies, r)
    /\ ret' = LmScoreAfter(r).ret
    /\ stdout' = stdout \o LmScoreAfter(r).out
    /\ pc' = "done"
    /\ UNCHANGED <<op, args, question, content, prompt, requests, k, i, scores, served>>
    /\ UNCHANGED <<dbVars, benchVars, statVars, reportVars, cfgVars>>

\* Python's a // b
\* (faulty variant: int(a / b), which truncates toward zero)
PyFloorDivMutTrunc(a, b) ==
    IF (a < 0) = (b < 0) THEN (IF a < 0 THEN (0 - a) \div (0 - b) ELSE a \div b)
    ELSE 0 - ((IF a < 0 THEN 0 - a ELSE a) \div (IF b < 0 THEN 0 - b ELSE b))
PyFloorDiv(a, b) == IF b > 0 THEN a \div b ELSE (0 - a) \div (0 - b)

RECURSIVE SeqSum(_)
SeqSum(s) == IF s = <<>> THEN 0 ELSE Head(s) + SeqSum(Tail(s))

\* scores.append(p.answer), or scores.append(5) in the except branch
\* (faulty variant: the except branch appends nothing)
AppendScoreMutSkip(s, r) == IF r.ok THEN Append(s, r.answer) ELSE s
AppendScore(s, r) == IF r.ok THEN Append(s, r.answer) ELSE Append(s, EnsembleDefault)

\* EnsembleScorer(k).forward(question): scores = []
ForwardCall(kk, q) ==
    /\ pc = "idle"
    /\ op' = "forward"
    /\ k' = kk
    /\ question' = q
    /\ scores' = <<>>
    /\ i' = 0
    /\ pc' = "forward_loop"
    /\ UNCHANGED <<args, content, prompt, requests, replies, ret, stdout, served>>
    /\ UNCHANGED <<dbVars, benchVars, statVars, reportVars, cfgVars>>

\* for _ in range(self.k): the next iteration calls self.predictor(question=question)
ForwardIssue ==
    /\ pc = "forward_loop"
    /\ i < k
    /\ i' = i + 1
    /\ requests' = Append(requests, question)
    /\ pc' = "forward_wait"
    /\ UNCHANGED <<op, args, question, content, prompt, replies, k, scores, ret, stdout, served>>
    /\ UNCHANGED <<dbVars, benchVars, statVars, reportVars, cfgVars>>

\* the predictor returns or raises; the slot is appended
\* (faulty variant: a failed prediction is asked for again)
ForwardReplyMutRetry(r) ==
    /\ pc = "forward_wait"
    /\ replies' = Append(replies, r)
    /\ IF r.ok
       THEN /\ scores' = Append(scores, r.answer)
            /\ pc' = "forward_loop"
            /\ requests' = requests
       ELSE /\ requests' = Append(requests, question)
            /\ UNCHANGED <<scores, pc>>
    /\ UNCHANGED <<op, args, question, content, prompt, k, i, ret, stdout, served>>
    /\ UNCHANGED <<dbVars, benchVars, statVars, reportVars, cfgVars>>
ForwardReply(r) ==
    /\ pc = "forward_wait"
    /\ replies' = Append(replies, r)
    /\ scores' = AppendScore(scores, r)
    /\ pc' = "forward_loop"
    /\ UNCHANGED <<op, args, question, content, prompt, requests, k, i, ret, stdout, served>>
    /\ UNCHANGED <<dbVars, benchVars, statVars, reportVars, cfgVars>>

\* return dspy.Prediction(answer=sum(scores) // self.k)
\* (faulty variant: the sum is returned undivided)
ForwardResultMutSum(s, kk) ==
    IF kk = 0 THEN Raise("ZeroDivisionError") ELSE Return(SeqSum(s))
ForwardResult(s, kk) ==
    IF kk = 0 THEN Raise("ZeroDivisionError") ELSE Return(PyFloorDiv(SeqSum(s), kk))

ForwardReturn ==
    /\ pc = "forward_loop"
    /\ ~(i < k)
    /\ ret' = ForwardResult(scores, k)
    /\ pc' = "done"
    /\ UNCHANGED <<op, args, question, content, prompt, requests, replies, k, i, scores, stdout, served>>
    /\ UNCHANGED <<dbVars, benchVars, statVars, reportVars, cfgVars>>

\* the caller goes on to its next call; nothing of the finished call is kept:
\* lm_score and forward hold their data in locals and write no module-level name
\* (faulty variant: the prompts sent and the lines printed pile up in module-level lists)
NextCallMutKeep ==
    /\ pc = "done"
    /\ served < MaxCalls
    /\ served' = served + 1
    /\ pc' = "idle"
    /\ op' = "none"
    /\ args' = <<>>
    /\ question' = <<>>
    /\ content' = <<>>
    /\ prompt' = <<>>
    /\ replies' = <<>>
    /\ k' = 0
    /\ i' = 0
    /\ scores' = <<>>
    /\ ret' = NoRet
    /\ UNCHANGED <<requests, stdout>>
    /\ UNCHANGED <<dbVars, benchVars, statVars, reportVars, cfgVars>>
NextCall ==
    /\ pc = "done"
    /\ served < MaxCalls
    /\ served' = served + 1
    /\ pc' = "idle"
    /\ op' = "none"
    /\ args' = <<>>
    /\ question' = <<>>
    /\ content' = <<>>
    /\ prompt' = <<>>
    /\ requests' = <<>>
    /\ replies' = <<>>
    /\ k' = 0
    /\ i' = 0
    /\ scores' = <<>>
    /\ ret' = NoRet
    /\ stdout' = <<>>
    /\ UNCHANGED <<dbVars, benchVars, statVars, reportVars, cfgVars>>

-----------------------------------------------------------------------------
(* The seed database (src/src/lm_score/create_db.py)                        *)

\* most invocations of create_company_database on the same database
MaxSeeds == 2
\* entries of each of sample_emails, sample_invoices, sample_leads
SeedRows == 10

TableNames == {"emails", "invoices", "sales_leads"}

DbInit ==
    /\ schema = <<>>
    /\ rows = [t \in TableNames |-> <<>>]
    /\ nCreate = 0

TableExists(sch, name) == \E x \in 1..Len(sch) : sch[x] = name

\* CREATE TABLE IF NOT EXISTS name (id INTEGER PRIMARY KEY AUTOINCREMENT, ...)
\* (faulty variant: DROP TABLE IF EXISTS before CREATE TABLE)
CreateTableMutRecreate(d, name) ==
    IF TableExists(d.schema, name)
    THEN [schema |-> d.schema, rows |-> [d.rows EXCEPT ![name] = <<>>]]
    ELSE [schema |-> Append(d.schema, name), rows |-> [d.rows EXCEPT ![name] = <<>>]]
CreateTable(d, name) ==
    IF TableExists(d.schema, name) THEN d
    ELSE [schema |-> Append(d.schema, name), rows |-> [d.rows EXCEPT ![name] = <<>>]]

\* cursor.executemany("INSERT INTO name ...", sample): AUTOINCREMENT gives the next ids
InsertSample(d, name) ==
    [schema |-> d.schema,
     rows |-> [d.rows EXCEPT ![name] =
                  @ \o [j \in 1..SeedRows |-> [id |-> Len(@) + j, seed |-> j]]]]

\* the three CREATE TABLE / executemany pairs of create_company_database, in order
SeededDb(d) ==
    LET d1 == InsertSample(CreateTable(d, "emails"), "emails")
        d2 == InsertSample(CreateTable(d1, "invoices"), "invoices")
    IN  InsertSample(CreateTable(d2, "sales_leads"), "sales_leads")

\* create_company_database(db_path), through conn.commit()
CreateCompanyDatabase ==
    /\ bpc = "idle"
    /\ nCreate < MaxSeeds
    /\ schema' = SeededDb([schema |-> schema, rows |-> rows]).schema
    /\ rows' = SeededDb([schema |-> schema, rows |-> rows]).rows
    /\ nCreate' = nCreate + 1
    /\ UNCHANGED <<benchVars, scoreVars, statVars, reportVars, cfgVars>>

-----------------------------------------------------------------------------
(* The benchmark driver (src/tests/benchmark_lm_score.py)                   *)

\* most rows of one run whose model, judge or human outcome is not the usual one
MaxVaried == 1
\* LIMIT 5 of every SELECT of benchmark_lm_score
BatchLimit == 5
\* the SELECT blocks of a run without --full (emails, questions 1 and 2)
SubsetBatches == 2
\* the SELECT blocks of a run with --full
FullBatches == 6

\* the table each SELECT block reads, and its OFFSET
BatchTable(b) == IF b <= 2 THEN "emails" ELSE IF b <= 4 THEN "invoices" ELSE "sales_leads"
BatchOffset(b) == IF b % 2 = 1 THEN 0 ELSE 5

Min(a, b) == IF a < b THEN a ELSE b

\* SELECT ... FROM t LIMIT lim OFFSET off: rows in rowid order
SelectLimit(rs, lim, off) == SubSeq(rs, off + 1, Min(off + lim, Len(rs)))

\* the content_parts evaluate_single_item gets for a row: two text columns of the row
RowParts(t, r) ==
    <<PyString(<<t, ".a", DigitChar(r.seed - 1)>>), PyString(<<t, ".b", DigitChar(r.seed - 1)>>)>>

\* content = "\n".join(str(part) for part in content_parts if part is not None)
BenchContent(parts) == PyJoin(<<"\n">>, StrNonNull(parts))

BenchAnswers == {5, 11}
BenchReplies == {Ok(a) : a \in BenchAnswers} \cup {Fail(e) : e \in Failures}
JudgeTexts   == {"reasonable", "unreasonable", "maybe"}
JudgeReplies == {[ok |-> TRUE, judgment |-> j] : j \in JudgeTexts}
                    \cup {[ok |-> FALSE, judgment |-> "none"]}
\* what the human types at the console
HumanInputs  == {<<"y">>, <<"n">>, <<"x">>, <<"Y">>, <<" ", "n">>}

\* item: the locals of evaluate_single_item, with score_reply the outcome of the
\* lm_scorer call, judge_score the score argument of the judge call, input the line
\* read last, human_eval its stripped lower-case form, trace the statements of
\* evaluate_single_item executed so far, in order, and score_lm and judge_lm the
\* configurations the scorer's and the judge's request are sent with
NoItem == [table |-> "none", id |-> 0, seed |-> 0, batch |-> 0, content |-> <<>>,
           prompt |-> <<>>, score_reply |-> "none", score |-> 0, judge_score |-> 0,
           judgment |-> "none", input |-> <<>>, human_eval |-> <<>>, reprompts |-> 0,
           trace |-> <<>>, score_lm |-> NoLm, judge_lm |-> NoLm]

NoFile == [written |-> FALSE, data |-> <<>>]

BenchInit ==
    /\ bpc = "idle"
    /\ run_full = FALSE
    /\ batch = 0
    /\ fetched = <<>>
    /\ item = NoItem
    /\ results = <<>>
    /\ saved = NoFile
    /\ bret = NoRet
    /\ varied = 0

\* benchmark_lm_score.py is imported: judge = LMJudge()
LMJudgeInit ==
    /\ bpc = "idle"
    /\ ~config.judge_built
    /\ config' = InstallJudgeLm(config)
    /\ UNCHANGED <<scoreVars, dbVars, benchVars, statVars, reportVars>>

\* benchmark_lm_score(run_full, prefix): get_connection, results = []
BenchStart(full) ==
    /\ bpc = "idle"
    /\ config.judge_built
    /\ run_full' = full
    /\ results' = <<>>
    /\ batch' = 1
    /\ bpc' = "query"
    /\ UNCHANGED <<fetched, item, saved, bret, varied, dbVars, scoreVars, statVars, reportVars, cfgVars>>

\* cursor.execute("SELECT ... LIMIT 5 [OFFSET 5]"); cursor.fetchall()
BenchQuery ==
    /\ bpc = "query"
    /\ IF TableExists(schema, BatchTable(batch))
       THEN /\ fetched' = SelectLimit(rows[BatchTable(batch)], BatchLimit, BatchOffset(batch))
            /\ bpc' = "loop"
            /\ bret' = bret
       ELSE /\ bret' = Raise("OperationalError")
            /\ bpc' = "done"
            /\ fetched' = fetched
    /\ UNCHANGED <<run_full, batch, item, results, saved, varied, dbVars, scoreVars, statVars, reportVars, cfgVars>>

\* for row in cursor.fetchall(): evaluate_single_item builds the prompt and calls lm_scorer
EvalStart ==
    /\ bpc = "loop"
    /\ fetched # <<>>
    /\ LET r == Head(fetched)
           c == BenchContent(RowParts(BatchTable(batch), r))
       IN  item' = [table |-> BatchTable(batch), id |-> r.id, seed |-> r.seed, batch |-> batch,
                    content |-> c, prompt |-> BuildPrompt(PyString(<<"Q", DigitChar(batch)>>), c),
                    score_reply |-> "none", score |-> 0, judge_score |-> 0,
                    judgment |-> "none", input |-> <<>>, human_eval |-> <<>>,
                    reprompts |-> 0,
                    trace |-> <<"build_prompt", "timer_start", "score_call">>,
                    score_lm |-> PredictorLm(config.scorer_predictor_lm, config.settings_lm),
                    judge_lm |-> NoLm]
    /\ fetched' = Tail(fetched)
    /\ bpc' = "score"
    /\ UNCHANGED <<run_full, batch, results, saved, bret, varied, dbVars, scoreVars, statVars, reportVars, cfgVars>>

\* an outcome other than the usual one is drawn only while the run has variation left
Usual(x, usual) == x = usual \/ varied < MaxVaried
Vary(x, usual) == IF x = usual THEN varied ELSE varied + 1

\* response = lm_scorer(question=prompt): no try around the call, so an exception of
\* the scorer leaves evaluate_single_item
\* (faulty variant: the exception is caught and 5 is scored, as lm_score does)
ScoreOutcomeMutCatch(r) ==
    IF r.ok THEN [raised |-> FALSE, score |-> r.answer, exc |-> "none"]
    ELSE [raised |-> FALSE, score |-> 5, exc |-> "none"]
ScoreOutcome(r) ==
    IF r.ok THEN [raised |-> FALSE, score |-> r.answer, exc |-> "none"]
    ELSE [raised |-> TRUE, score |-> 0, exc |-> r.error]

\* score = response.answer; elapsed_time = time.time() - start_time; ...;
\* judge_response = judge(question=question, content=content, score=score)
\* (faulty variant: the elapsed time is taken after the judge call)
AfterScoreMutLate(it, a) ==
    [it EXCEPT !.score = a, !.judge_score = a,
               !.trace = @ \o <<"score_return", "judge_call", "timer_stop">>]
AfterScore(it, a) ==
    [it EXCEPT !.score = a, !.judge_score = a,
               !.trace = @ \o <<"score_return", "timer_stop", "judge_call">>]

\* lm_scorer returns or raises; on a return the judge is called next
EvalScoreReply(r) ==
    /\ bpc = "score"
    /\ IF ~ScoreOutcome(r).raised
       THEN /\ Usual(ScoreOutcome(r).score, 5)
            /\ varied' = Vary(ScoreOutcome(r).score, 5)
            /\ item' = AfterScore([item EXCEPT !.score_reply = IF r.ok THEN "ok" ELSE r.error,
                                               !.judge_lm = PredictorLm(config.judge_predictor_lm,
                                                                        config.settings_lm)],
                                  ScoreOutcome(r).score)
            /\ bpc' = "judge"
            /\ bret' = bret
       ELSE /\ bret' = Raise(ScoreOutcome(r).exc)
            /\ bpc' = "done"
            /\ item' = [item EXCEPT !.score_reply = r.error]
            /\ varied' = varied
    /\ UNCHANGED <<run_full, batch, fetched, results, saved, dbVars, scoreVars, statVars, reportVars, cfgVars>>

\* judge_response = judge(...); judge_judgment = getattr(judge_response, 'judgment', 'unknown')
EvalJudgeReply(j) ==
    /\ bpc = "judge"
    /\ IF j.ok
       THEN /\ Usual(j.judgment, "reasonable")
            /\ varied' = Vary(j.judgment, "reasonable")
            /\ item' = [item EXCEPT !.judgment = j.judgment,
                                     !.trace = @ \o <<"judge_return", "human_prompt">>]
            /\ bpc' = "human"
            /\ bret' = bret
       ELSE /\ bret' = Raise("judge")
            /\ bpc' = "done"
            /\ UNCHANGED <<item, varied>>
    /\ UNCHANGED <<run_full, batch, fetched, results, saved, dbVars, scoreVars, statVars, reportVars, cfgVars>>

\* the dict evaluate_single_item returns; human_reasonable = human_eval == 'y'
Record(it, h) ==
    [table |-> it.table, id |-> it.id, seed |-> it.seed, batch |-> it.batch,
     combined_content |-> it.content, lm_score_output |-> it.score,
     judgment |-> it.judgment, human_reasonable |-> (h = <<"y">>)]

\* results.append(result)
\* (faulty variant: the new record is put in front)
AppendResultMutPrepend(rs, rec) == <<rec>> \o rs
AppendResult(rs, rec) == Append(rs, rec)

\* human_eval = input(...).strip().lower()
\* (faulty variant: the line is compared as typed)
HumanEvalMutRaw(line) == line
HumanEval(line) == PyLower(PyStrip(line))

\* while True: human_eval = input(...).strip().lower(); on 'y' or 'n' the item is
\* returned and results.append(result) runs; any other input prints and asks again
EvalHumanInput(h) ==
    /\ bpc = "human"
    /\ Usual(h, <<"y">>)
    /\ varied' = Vary(h, <<"y">>)
    /\ IF HumanEval(h) \in {<<"y">>, <<"n">>}
       THEN /\ results' = AppendResult(results, Record(item, HumanEval(h)))
            /\ item' = [item EXCEPT !.input = h, !.human_eval = HumanEval(h),
                                     !.trace = @ \o <<"human_accept", "record">>]
            /\ bpc' = "loop"
       ELSE /\ item' = [item EXCEPT !.input = h, !.human_eval = HumanEval(h),
                                     !.reprompts = @ + 1]
            /\ UNCHANGED <<results, bpc>>
    /\ UNCHANGED <<run_full, batch, fetched, saved, bret, dbVars, scoreVars, statVars, reportVars, cfgVars>>

\* whether the run ends after SELECT block b
\* (faulty variant: the results are saved and the run ends after the first block)
LastBatchMutFirst(full, b) == b = 1
LastBatch(full, b) == IF full THEN b = FullBatches ELSE b = SubsetBatches

\* the rows of a block are done: the next block, or save_results(results, prefix) and return
BenchBatchEnd ==
    /\ bpc = "loop"
    /\ fetched = <<>>
    /\ IF LastBatch(run_full, batch)
       THEN /\ saved' = [written |-> TRUE, data |-> results]
            /\ bret' = Return(0)
            /\ bpc' = "done"
            /\ batch' = batch
       ELSE /\ batch' = batch + 1
            /\ bpc' = "query"
            /\ UNCHANGED <<saved, bret>>
    /\ UNCHANGED <<run_full, fetched, item, results, varied, dbVars, scoreVars, statVars, reportVars, cfgVars>>

-----------------------------------------------------------------------------
(* The report statistics (src/analysis/viz.py)                              *)

\* largest sample calculate_stats is applied to
MaxN == 32
\* t_value = 1.96 if n > 30 else 2.0, in hundredths, and the sample size it turns on
TValueNormal == 196
TValueSmall == 200
LargeSample == 30

RECURSIVE SeqSumSq(_)
SeqSumSq(s) == IF s = <<>> THEN 0 ELSE Head(s) * Head(s) + SeqSumSq(Tail(s))

\* sum of (n*x - sum)^2 over the sample: n^2 times the squared deviations from the mean
RECURSIVE DevSqSum(_, _, _)
DevSqSum(s, n, total) ==
    IF s = <<>> THEN 0
    ELSE (n * Head(s) - total) * (n * Head(s) - total) + DevSqSum(Tail(s), n, total)

\* t_value = 1.96 if n > 30 else 2.0
\* (faulty variant: n >= 30)
TValueMutAtThirty(n) == IF n >= LargeSample THEN TValueNormal ELSE TValueSmall
TValue(n) == IF n > LargeSample THEN TValueNormal ELSE TValueSmall

Rational(a, b) == [num |-> a, den |-> b]
\* the real number (coef / 100) * sqrt(rad), rad a rational
Scaled(c, r) == [coef |-> c, rad |-> r]

\* calculate_stats(values): mean is sum / n (0/0 is nan); std_err squared is
\* np.std(values, ddof=1)^2 / n; error is t_value * std_err, or 0 when n <= 1
calculate_stats(v) ==
    LET n == Len(v)
        total == SeqSum(v)
    IN  IF n > 1
        THEN LET se2 == Rational(DevSqSum(v, n, total), n * n * n * (n - 1))
             IN  [n |-> n, mean |-> Rational(total, n), t_value |-> TValue(n),
                  std_err_sq |-> se2, error |-> Scaled(TValue(n), se2)]
        ELSE [n |-> n, mean |-> Rational(total, n), t_value |-> 0,
              std_err_sq |-> Rational(0, 1), error |-> Scaled(0, Rational(0, 1))]

NoStats == [n |-> -1, mean |-> Rational(0, 1), t_value |-> 0,
            std_err_sq |-> Rational(0, 1), error |-> Scaled(0, Rational(0, 1))]

\* bounded samples: n values a, a+d, .., a+(m-1)d, a, ...
Sample(n, a, d, m) == [x \in 1..n |-> a + d * ((x - 1) % m)]
Samples == {Sample(n, a, d, m) : n \in 0..MaxN, a \in {0, 4}, d \in {0, 3}, m \in 1..3}

StatInit ==
    /\ values = <<>>
    /\ stats = NoStats

CalculateStats ==
    /\ stats = NoStats
    /\ stats' = calculate_stats(values)
    /\ UNCHANGED <<values, scoreVars, dbVars, benchVars, reportVars, cfgVars>>

\* most records of a result array the report is run on
MaxRecords == 2

WordReasonable   == <<"r", "e", "a", "s", "o", "n", "a", "b", "l", "e">>
WordUnreasonable == <<"u", "n">> \o WordReasonable

\* texts a judge model gives as its judgment
JudgmentTexts ==
    { WordReasonable,
      WordUnreasonable,
      <<"R">> \o Tail(WordReasonable),
      <<"U", "N">> \o WordReasonable,
      <<"m", "a", "y", "b", "e">>,
      <<"y", "e", "s", ":", " ">> \o WordReasonable }

\* records of a result file (save_results), with the fields the report reads;
\* lm_score_time_seconds in milliseconds
ReportRecords ==
    { [lm_score_output |-> sc.score, lm_score_time_seconds |-> sc.time,
       lm_score_tokens |-> sc.tokens, human_reasonable |-> h, judgment |-> j] :
        sc \in { [score |-> 2, time |-> 150, tokens |-> 0],
                 [score |-> 9, time |-> 420, tokens |-> 40] },
        h \in BOOLEAN, j \in JudgmentTexts }

ResultArrays == UNION { [1..n -> ReportRecords] : n \in 0..MaxRecords }

\* judgment = result['lm_judge_evaluation']['judgment'].lower()
\* if 'reasonable' in judgment and 'unreasonable' not in judgment: 1 else: 0
\* (faulty variant: the judgment is not lower-cased)
JudgeReasonableMutCase(judgment) ==
    IF PyContains(judgment, WordReasonable) /\ ~PyContains(judgment, WordUnreasonable)
    THEN 1 ELSE 0
JudgeReasonable(judgment) ==
    LET lowered == PyLower(judgment)
    IN  IF PyContains(lowered, WordReasonable) /\ ~PyContains(lowered, WordUnreasonable)
        THEN 1 ELSE 0

\* the same test in create_per_problem_visualization: the cell stays 0 unless it passes
JudgeMatrixCell(judgment) ==
    LET lowered == PyLower(judgment)
    IN  IF PyContains(lowered, WordReasonable) /\ ~PyContains(lowered, WordUnreasonable)
        THEN 1 ELSE 0

\* 1.96 * np.sqrt(prop * (1 - prop) / n) * 100 with prop = cnt / n:
\* prop * (1 - prop) / n is cnt * (n - cnt) / n^3; 0/0 is nan
\* (faulty variant: the variance is divided by n - 1)
ProportionErrorMutSample(cnt, n) ==
    Scaled(TValueNormal * 100, Rational(cnt * (n - cnt), n * n * (n - 1)))
ProportionError(cnt, n) ==
    Scaled(TValueNormal * 100, Rational(cnt * (n - cnt), n * n * n))

ScoreOf(r)  == r.lm_score_output
TimeOf(r)   == r.lm_score_time_seconds
TokensOf(r) == r.lm_score_tokens
HumanOf(r)  == IF r.human_reasonable THEN 1 ELSE 0
JudgeOf(r)  == JudgeReasonable(r.judgment)

\* load_and_analyze_results(json_path), results being the array loaded
load_and_analyze_results(res) ==
    LET human_reasonable == [x \in 1..Len(res) |-> HumanOf(res[x])]
        judge_reasonable == [x \in 1..Len(res) |-> JudgeOf(res[x])]
        n == Len(human_reasonable)
    IN  [kind |-> "return",
         score |-> calculate_stats([x \in 1..Len(res) |-> ScoreOf(res[x])]),
         time |-> calculate_stats([x \in 1..Len(res) |-> TimeOf(res[x])]),
         tokens |-> calculate_stats([x \in 1..Len(res) |-> TokensOf(res[x])]),
         human_accuracy |-> [mean |-> Rational(100 * SeqSum(human_reasonable), n),
                             error |-> ProportionError(SeqSum(human_reasonable), n)],
         judge_accuracy |-> [mean |-> Rational(100 * SeqSum(judge_reasonable), n),
                             error |-> ProportionError(SeqSum(judge_reasonable), n)],
         n_samples |-> n,
         judge_reasonable |-> judge_reasonable]

NoAnalysis == [kind |-> "none"]
NoMatrices == [built |-> FALSE, judge_matrix |-> <<>>, human_matrix |-> <<>>]

ReportInit ==
    /\ loaded = <<>>
    /\ analysis = NoAnalysis
    /\ matrices = NoMatrices

LoadAndAnalyze ==
    /\ analysis = NoAnalysis
    /\ analysis' = load_and_analyze_results(loaded)
    /\ UNCHANGED <<loaded, matrices, scoreVars, dbVars, benchVars, statVars, cfgVars>>

\* create_per_problem_visualization for one method: the two columns of cells
PerProblemMatrices ==
    /\ ~matrices.built
    /\ matrices' = [built |-> TRUE,
                    judge_matrix |-> [x \in 1..Len(loaded) |-> JudgeMatrixCell(loaded[x].judgment)],
                    human_matrix |-> [x \in 1..Len(loaded) |-> HumanOf(loaded[x])]]
    /\ UNCHANGED <<loaded, analysis, scoreVars, dbVars, benchVars, statVars, cfgVars>>

-----------------------------------------------------------------------------
(* Specifications *)

Init == ScoreInit /\ DbInit /\ BenchInit /\ StatInit /\ ReportInit /\ ConfigInit

Next ==
    \/ \E a \in ArgTuples : LmScoreCall(a)
    \/ \E r \in Replies : LmScoreReply(r)
    \/ \E kk \in KValues, q \in Questions : ForwardCall(kk, q)
    \/ ForwardIssue
    \/ \E r \in Replies : ForwardReply(r)
    \/ ForwardReturn
    \/ NextCall

Spec == Init /\ [][Next]_vars

BenchNext ==
    \/ CreateCompanyDatabase
    \/ LMJudgeInit
    \/ \E full \in BOOLEAN : BenchStart(full)
    \/ BenchQuery
    \/ EvalStart
    \/ \E r \in BenchReplies : EvalScoreReply(r)
    \/ \E j \in JudgeReplies : EvalJudgeReply(j)
    \/ \E h \in HumanInputs : EvalHumanInput(h)
    \/ BenchBatchEnd

SpecBench == Init /\ [][BenchNext]_vars

StatsInit ==
    /\ ScoreInit /\ DbInit /\ BenchInit /\ ReportInit /\ ConfigInit
    /\ values \in Samples
    /\ stats = NoStats

StatsNext == CalculateStats

SpecStats == StatsInit /\ [][StatsNext]_vars

ReportSpecInit ==
    /\ ScoreInit /\ DbInit /\ BenchInit /\ StatInit /\ ConfigInit
    /\ loaded \in ResultArrays
    /\ analysis = NoAnalysis
    /\ matrices = NoMatrices

ReportNext ==
    \/ LoadAndAnalyze
    \/ PerProblemMatrices

SpecReport == ReportSpecInit /\ [][ReportNext]_vars

\* a process that serves calls (main.py, the tests): it runs no benchmark
ScoreProcess ==
    /\ bpc = "idle" /\ nCreate = 0 /\ ~config.judge_built
    /\ Next

\* a process that runs the benchmark script: it calls lm_scorer itself, never lm_score
BenchProcess ==
    /\ pc = "idle" /\ served = 0
    /\ BenchNext

ProcessNext ==
    \/ ScoreProcess
    \/ BenchProcess

SpecProcess == Init /\ [][ProcessNext]_vars

-----------------------------------------------------------------------------
(* Properties of lm_score (checked under Spec)                              *)

\* C1: a call of lm_score with fewer than 2 arguments (0 or 1) ends in the argument
\* error (TypeError) instead of a score, and sends no request to the inference client.
C1_ArgumentError ==
    (op = "lm_score" /\ Len(args) < 2) =>
        /\ pc = "done"
        /\ ret = Raise("TypeError")
        /\ requests = <<>>
        /\ replies = <<>>

C1_Witness ==
    /\ op = "lm_score" /\ pc = "done"
    /\ Len(args) = 1
    /\ ret = Raise("TypeError")

\* C2: for every call of lm_score with at least 2 arguments and every reply of the
\* inference client, the value lm_score returns is an integer in 0..10.
C2_ScoreInRange ==
    (op = "lm_score" /\ pc = "done" /\ Len(args) >= 2) =>
        (ret.kind = "return" /\ ret.value \in 0..10)

\* C3: a call of lm_score with at least 2 arguments never raises to the caller; when
\* the model call fails in transport or parsing it prints a warning and returns 5.
C3_FailureGivesNeutral ==
    (op = "lm_score" /\ pc = "done" /\ Len(args) >= 2) =>
        /\ ret.kind = "return"
        /\ Len(replies) = 1
        /\ ~replies[1].ok => (ret.value = 5 /\ stdout = <<"Warning">>)

C3_Witness ==
    /\ op = "lm_score" /\ pc = "done" /\ Len(args) = 2
    /\ replies = <<Fail("parse")>>
    /\ ret = Return(5)
    /\ stdout = <<"Warning">>

\* the positions of the content arguments that are not None, in argument order
RECURSIVE NonNullIdx(_, _)
NonNullIdx(parts, from) ==
    IF from > Len(parts) THEN <<>>
    ELSE IF parts[from] = PyNone THEN NonNullIdx(parts, from + 1)
    ELSE <<from>> \o NonNullIdx(parts, from + 1)

\* where the j-th non-None part starts in the content: after the earlier parts and
\* one separator for each of them
RECURSIVE PartOffset(_, _, _)
PartOffset(parts, nn, j) ==
    IF j = 1 THEN 1
    ELSE PartOffset(parts, nn, j - 1) + Len(PyStr(parts[nn[j - 1]])) + 1

\* C7: for lm_score(c1, ..., cn, q), n >= 1, the prompt holds the string form of q as
\* its question and, as its content, the string forms of exactly the non-None ci in
\* argument order, each two neighbours one space apart; a None ci adds no text and no
\* separator, all-None content is empty, and the call ends without raising.
C7_ContentJoin ==
    (op = "lm_score" /\ Len(args) >= 2) =>
        LET q     == PyStr(args[Len(args)])
            parts == [x \in 1..(Len(args) - 1) |-> args[x]]
            nn    == NonNullIdx(parts, 1)
            last  == Len(nn)
            total == IF last = 0 THEN 0
                     ELSE PartOffset(parts, nn, last) + Len(PyStr(parts[nn[last]])) - 1
        IN  /\ Len(content) = total
            /\ \A j \in 1..last :
                  /\ SubSeq(content, PartOffset(parts, nn, j),
                            PartOffset(parts, nn, j) + Len(PyStr(parts[nn[j]])) - 1)
                         = PyStr(parts[nn[j]])
                  /\ j > 1 => content[PartOffset(parts, nn, j) - 1] = " "
            /\ Len(prompt) = Len(q) + total + 3
            /\ prompt[1] = PromptHead[1]
            /\ SubSeq(prompt, 2, 1 + Len(q)) = q
            /\ prompt[2 + Len(q)] = PromptMid[1]
            /\ SubSeq(prompt, 3 + Len(q), 2 + Len(q) + total) = content
            /\ prompt[Len(prompt)] = PromptTail[1]
            /\ requests = <<prompt>>
            /\ pc = "done" => ret.kind = "return"

C7_Witness ==
    /\ op = "lm_score" /\ pc = "done" /\ ret.kind = "return"
    /\ args = <<PyString(<<"a", "b">>), PyNone, PyInt(12), PyString(<<>>)>>
    /\ content = <<"a", "b", " ", "1", "2">>

\* C12: lm_score is stateless across invocations: between calls nothing of an earlier
\* call is left (the state is the one before the first call), the prompt sent is
\* fixed by the call's own arguments, and the value returned is fixed by the reply.
C12_Stateless ==
    /\ [](pc = "idle" =>
            /\ op = "none" /\ args = <<>> /\ question = <<>> /\ content = <<>>
            /\ prompt = <<>> /\ requests = <<>> /\ replies = <<>>
            /\ scores = <<>> /\ ret = NoRet /\ stdout = <<>>)
    /\ [][(pc = "idle" /\ op' = "lm_score" /\ Len(args') >= 2) =>
            /\ prompt' = PromptHead \o PyStr(args'[Len(args')]) \o PromptMid
                            \o JoinContent(ContentParts(args')) \o PromptTail
            /\ requests' = <<prompt'>>]_vars
    /\ [][(pc = "lm_score_wait" /\ pc' = "done") =>
            /\ Len(replies') = 1
            /\ ret' = Return(IF replies'[1].ok THEN replies'[1].answer ELSE 5)
            /\ stdout' = <<IF replies'[1].ok THEN "usage" ELSE "Warning">>]_vars

C12_Witness ==
    /\ served = 2
    /\ op = "lm_score" /\ pc = "done" /\ Len(args) = 3
    /\ ret = Return(9)

\* the slot value of the j-th reply: its answer, or 5 for a failed call
SlotOf(r) == IF r.ok THEN r.answer ELSE 5

\* C13: the scorer lm_score delegates to is the ensemble with k = 3 in average mode:
\* one call with at least 2 arguments issues 3 model calls and returns the floor of
\* their sum divided by 3.
C13_DefaultIsEnsemble ==
    (op = "lm_score" /\ pc = "done" /\ Len(args) >= 2) =>
        /\ Len(requests) = 3
        /\ Len(replies) = 3
        /\ ret.kind = "return"
        /\ 3 * ret.value <= SlotOf(replies[1]) + SlotOf(replies[2]) + SlotOf(replies[3])
        /\ SlotOf(replies[1]) + SlotOf(replies[2]) + SlotOf(replies[3]) < 3 * (ret.value + 1)

-----------------------------------------------------------------------------
(* Properties of EnsembleScorer.forward (checked under Spec)                *)

\* C4: for k >= 1, forward returns floor(sum of the k slot values / k), an integer
\* floor division and not a rounded mean: [10,10,10] gives 10 and [2,5,9] gives 5.
C4_FloorOfMean ==
    (op = "forward" /\ pc = "done" /\ k >= 1) =>
        /\ ret.kind = "return"
        /\ Len(scores) = k
        /\ k * ret.value <= SeqSum(scores)
        /\ SeqSum(scores) < k * (ret.value + 1)
        /\ scores = <<10, 10, 10>> => ret.value = 10
        /\ scores = <<2, 5, 9>> => ret.value = 5

C4_Witness ==
    /\ op = "forward" /\ pc = "done"
    /\ scores = <<2, 5, 9>>
    /\ ret = Return(5)

\* C5: when the j-th model call of forward fails, slot j holds 5, every other slot
\* holds the answer of its own call, and the calls after j are still issued: forward
\* ends only after k requests.
C5_FailedSlotNeutral ==
    op = "forward" =>
        /\ Len(scores) = Len(replies)
        /\ \A j \in 1..Len(replies) :
              scores[j] = IF replies[j].ok THEN replies[j].answer ELSE 5
        /\ (pc = "done" /\ k >= 0) => (Len(requests) = k /\ Len(replies) = k)

C5_Witness ==
    /\ op = "forward" /\ pc = "done" /\ k = 3
    /\ replies = <<Fail("transport"), Ok(9), Ok(2)>>
    /\ scores = <<5, 9, 2>>
    /\ Len(requests) = 3

\* C6: for every k the constructor accepts, 0 included, and every combination of
\* per-call outcomes, forward returns a result and never raises.
C6_ForwardNeverRaises ==
    (op = "forward" /\ pc = "done") => ret.kind = "return"

\* C19: forward issues exactly k model calls, one after another: a request goes out
\* only after the reply to the one before it, never two in flight, and a failed call
\* is not issued again (for k < 0 the loop body never runs and no call is made).
C19_SerialCalls ==
    op = "forward" =>
        /\ Len(requests) = i
        /\ i <= (IF k > 0 THEN k ELSE 0)
        /\ Len(requests) - Len(replies) = (IF pc = "forward_wait" THEN 1 ELSE 0)
        /\ pc = "done" => Len(requests) = (IF k > 0 THEN k ELSE 0)

C19_Witness ==
    /\ op = "forward" /\ pc = "done" /\ k = 3
    /\ Len(requests) = 3
    /\ ~replies[1].ok /\ ~replies[2].ok /\ replies[3].ok

\* how often v is in the list s
Count(s, v) == Cardinality({x \in 1..Len(s) : s[x] = v})

\* C20: forward returns the score that occurs most often among its k predictions
\* (the mode), failed predictions counted as 5.
C20_ReturnsMode ==
    (op = "forward" /\ pc = "done" /\ k >= 1) =>
        /\ ret.kind = "return"
        /\ Count(scores, ret.value) >= 1
        /\ \A x \in 1..Len(scores) : Count(scores, ret.value) >= Count(scores, scores[x])

\* C26: for k >= 1 the value forward returns lies between the smallest and the
\* largest of its k slot values; so when every successful call answers within 0..10
\* the result is within 0..10, whichever calls fail.
C26_BetweenMinAndMax ==
    (op = "forward" /\ pc = "done" /\ k >= 1) =>
        /\ ret.kind = "return"
        /\ Len(scores) = k
        /\ \E x \in 1..k : scores[x] <= ret.value
        /\ \E y \in 1..k : ret.value <= scores[y]
        /\ (\A j \in 1..Len(replies) : replies[j].ok => replies[j].answer \in 0..10)
              => ret.value \in 0..10

C26_Witness ==
    /\ op = "forward" /\ pc = "done" /\ k = 3
    /\ replies = <<Fail("parse"), Ok(0), Ok(10)>>
    /\ scores = <<5, 0, 10>>
    /\ ret = Return(5)

-----------------------------------------------------------------------------
(* Properties of the seed database and the benchmark run (checked under SpecBench) *)

\* how often table t is in the schema
TableCount(t) == Cardinality({x \in 1..Len(schema) : schema[x] = t})

\* C8: after n >= 1 invocations of create_company_database there is exactly one
\* emails, one invoices and one sales_leads table, and each holds 10 * n rows.
C8_SchemaOnceRowsPerSeed ==
    nCreate >= 1 =>
        /\ Len(schema) = 3
        /\ \A t \in TableNames : TableCount(t) = 1 /\ Len(rows[t]) = 10 * nCreate

C8_Witness ==
    /\ nCreate = 2
    /\ \A t \in TableNames : TableCount(t) = 1 /\ Len(rows[t]) = 20

\* the rows present in the three tables
TotalRows == Len(rows["emails"]) + Len(rows["invoices"]) + Len(rows["sales_leads"])

\* C9: a run without --full saves exactly 10 records; a run with --full saves one
\* record for every row present in the three tables, however often the database
\* has been seeded.
C9_FullCoversAllRows ==
    (bpc = "done" /\ saved.written) =>
        Len(saved.data) = IF run_full THEN TotalRows ELSE 10

\* the statements of evaluate_single_item for one row, in program order
RowSteps == <<"build_prompt", "timer_start", "score_call", "score_return", "timer_stop",
              "judge_call", "judge_return", "human_prompt", "human_accept", "record">>

IsPrefix(a, b) == Len(a) <= Len(b) /\ SubSeq(b, 1, Len(a)) = a

\* C14: for every evaluated row the steps run in the order build prompt, score,
\* judge, human prompt, record: the judge is called only after the scorer has
\* returned and is given that row's score, the human is asked only after the judge
\* has returned, the record is appended only when the human answer is accepted, and
\* the timer starts before the score call and stops before the judge call.
C14_StepOrder ==
    /\ [](item # NoItem =>
            /\ IsPrefix(item.trace, RowSteps)
            /\ (bpc = "score" => item.trace = SubSeq(RowSteps, 1, 3))
            /\ (bpc = "judge" => /\ item.trace = SubSeq(RowSteps, 1, 6)
                                 /\ item.score_reply = "ok"
                                 /\ item.judge_score = item.score
                                 /\ item.judgment = "none")
            /\ (bpc = "human" => /\ item.trace = SubSeq(RowSteps, 1, 8)
                                 /\ item.judge_score = item.score
                                 /\ item.judgment # "none"))
    /\ [][results' # results =>
            /\ bpc = "human"
            /\ item'.trace = RowSteps
            /\ item'.human_eval \in {<<"y">>, <<"n">>}
            /\ Len(results') = Len(results) + 1
            /\ SubSeq(results', 1, Len(results)) = results
            /\ results'[Len(results')].id = item.id
            /\ results'[Len(results')].table = item.table
            /\ results'[Len(results')].lm_score_output = item.judge_score
            /\ results'[Len(results')].judgment = item.judgment]_vars

C14_Witness ==
    /\ bpc = "loop"
    /\ item.trace = RowSteps
    /\ item.score = 11
    /\ Len(results) = 2
    /\ results[2].lm_score_output = 11

\* line is c or its capital, with nothing but whitespace around it
YesNoForm(line, c) ==
    \E x \in 1..Len(line) :
        /\ line[x] = c \/ \E u \in 1..26 : LowerLetters[u] = c /\ UpperLetters[u] = line[x]
        /\ \A y \in 1..Len(line) : y # x => IsSpace(line[y])

\* C15 as stated: the human prompt accepts only the inputs 'y' and 'n'; any other
\* input asks again without a record; the verdict is true iff the input is 'y'.
C15_OnlyExactYN ==
    [][bpc = "human" =>
         IF item'.input \in {<<"y">>, <<"n">>}
         THEN /\ bpc' = "loop"
              /\ Len(results') = Len(results) + 1
              /\ results'[Len(results')].human_reasonable = (item'.input = <<"y">>)
         ELSE /\ bpc' = "human"
              /\ results' = results]_vars

\* C15, amended: the human prompt accepts a line exactly when, with surrounding
\* whitespace removed and capitals lowered, it is 'y' or 'n' (so 'Y' and ' n' are
\* accepted); any other line asks again and appends no record; the step ends at the
\* first accepted line, and the recorded verdict is true iff that line reads 'y'.
C15_HumanAnswer ==
    [][bpc = "human" =>
         IF YesNoForm(item'.input, "y") \/ YesNoForm(item'.input, "n")
         THEN /\ bpc' = "loop"
              /\ Len(results') = Len(results) + 1
              /\ SubSeq(results', 1, Len(results)) = results
              /\ results'[Len(results')].human_reasonable = YesNoForm(item'.input, "y")
         ELSE /\ bpc' = "human"
              /\ results' = results
              /\ item'.reprompts = item.reprompts + 1]_vars

C15_Witness ==
    /\ bpc = "loop"
    /\ item.input = <<"Y">>
    /\ item.trace = RowSteps
    /\ results # <<>>
    /\ results[Len(results)].id = item.id
    /\ results[Len(results)].human_reasonable

\* C17: the judgment stored in every record is one of reasonable, unreasonable,
\* unknown, whatever text the judge model returns.
C17_JudgmentEnum ==
    \A x \in 1..Len(results) :
        results[x].judgment \in {"reasonable", "unreasonable", "unknown"}

\* C18: when the scoring call of a row fails, the failure is not replaced by a score
\* of 5: it leaves evaluate_single_item and the run, the judge and the human are not
\* asked for that row, no record is appended for it, and nothing is saved.
C18_ScoreFailurePropagates ==
    item.score_reply \in Failures =>
        /\ bpc = "done"
        /\ bret = Raise(item.score_reply)
        /\ item.trace = SubSeq(RowSteps, 1, 3)
        /\ item.judgment = "none"
        /\ item.input = <<>>
        /\ item.reprompts = 0
        /\ ~saved.written
        /\ \A x \in 1..Len(results) :
              ~(results[x].table = item.table /\ results[x].id = item.id
                /\ results[x].seed = item.seed /\ results[x].batch = item.batch)

C18_Witness ==
    /\ item.score_reply = "transport"
    /\ bpc = "done"
    /\ bret = Raise("transport")
    /\ Len(results) = 3
    /\ item.id = 4

\* C21: the prompt the benchmark driver builds and sends to the scorer is the prompt
\* lm_score builds for the same content parts and the same question.
C21_SamePromptAsLmScore ==
    item # NoItem =>
        LET parts == RowParts(item.table, [seed |-> item.seed])
            q     == PyString(<<"Q", DigitChar(item.batch)>>)
        IN  item.prompt = PromptHead \o PyStr(q) \o PromptMid \o JoinContent(parts) \o PromptTail

\* C22: during a run the result list only grows: each row evaluated to its end adds
\* exactly one record at the end, the records already in the list stay as they are
\* and where they are, and the saved array holds the records in evaluation order.
C22_ResultsAppendOnly ==
    /\ [][\/ results' = results
          \/ /\ bpc = "human" /\ bpc' = "loop"
             /\ Len(results') = Len(results) + 1
             /\ \A x \in 1..Len(results) : results'[x] = results[x]
             /\ results'[Len(results')].table = item.table
             /\ results'[Len(results')].id = item.id
             /\ results'[Len(results')].batch = item.batch]_vars
    /\ [][(bpc = "human" /\ bpc' = "loop") => Len(results') = Len(results) + 1]_vars
    /\ [](\A x, y \in 1..Len(results) :
            x < y => \/ results[x].batch < results[y].batch
                     \/ results[x].batch = results[y].batch /\ results[x].id < results[y].id)
    /\ [](saved.written => saved.data = results)

C22_Witness ==
    /\ bpc = "done"
    /\ saved.written
    /\ Len(saved.data) = 10
    /\ saved.data[1].id = 1 /\ saved.data[1].batch = 1
    /\ saved.data[10].id = 10 /\ saved.data[10].batch = 2
    /\ saved.data[4].lm_score_output = 11

\* C25: the result file is written only after the last row of the run has been
\* recorded; when the evaluation of a row raises, no file is written and the
\* records of the rows evaluated before it are not saved.
C25_SaveOnlyAtEnd ==
    /\ [](saved.written =>
            /\ bpc = "done"
            /\ bret = Return(0)
            /\ batch = (IF run_full THEN 6 ELSE 2)
            /\ fetched = <<>>
            /\ (item # NoItem => item.trace = RowSteps)
            /\ saved.data = results)
    /\ []((bpc = "done" /\ bret.kind = "raise") => saved = NoFile)
    /\ [][saved' # saved => (bpc = "loop" /\ fetched = <<>> /\ bpc' = "done")]_vars

C25_Witness ==
    /\ bpc = "done"
    /\ bret = Raise("transport")
    /\ Len(results) = 7
    /\ item.id = 8
    /\ saved = NoFile

\* C23: in a benchmark run every request of the scorer is sent with the primary
\* model configuration and every request of the judge with the judge configuration;
\* installing the judge configuration on the judge's predictor leaves the
\* configuration the scorer uses as it was.
C23_TwoConfigurations ==
    /\ [](item # NoItem =>
            /\ item.score_lm = PrimaryLm
            /\ (Len(item.trace) >= 6 => item.judge_lm = JudgeLm)
            /\ item.score_lm # item.judge_lm \/ item.judge_lm = NoLm)
    /\ [](PredictorLm(config.scorer_predictor_lm, config.settings_lm) = PrimaryLm)
    /\ [][config'.judge_predictor_lm # config.judge_predictor_lm =>
            /\ config'.judge_predictor_lm = JudgeLm
            /\ config'.settings_lm = config.settings_lm
            /\ config'.scorer_predictor_lm = config.scorer_predictor_lm
            /\ config'.lm = config.lm]_vars

C23_Witness ==
    /\ bpc = "human"
    /\ item.score_lm = PrimaryLm
    /\ item.judge_lm = JudgeLm
    /\ config.judge_predictor_lm = JudgeLm
    /\ config.settings_lm = PrimaryLm

-----------------------------------------------------------------------------
(* Properties of calculate_stats (checked under SpecStats)                  *)

\* C10: calculate_stats returns error 0 for a sample of 1 value; for n > 1 the error
\* is the standard error times 2.0 when 2 <= n <= 30 and times 1.96 when n > 30.
C10_ErrorHalfWidth ==
    stats # NoStats =>
        LET n == Len(values)
            S == SeqSum(values)
            Q == SeqSumSq(values)
        IN  /\ stats.n = n
            /\ n = 1 => (stats.error.coef = 0 \/ stats.error.rad.num = 0)
            /\ n >= 2 =>
                  /\ stats.std_err_sq.num = n * (n * Q - S * S)
                  /\ stats.std_err_sq.den = n * n * n * (n - 1)
                  /\ stats.error.rad = stats.std_err_sq
            /\ (n >= 2 /\ n <= 30) => stats.error.coef = 200
            /\ n > 30 => stats.error.coef = 196

C10_Witness ==
    /\ stats # NoStats
    /\ Len(values) = 31
    /\ stats.error.coef = 196
    /\ stats.error.rad.num > 0

-----------------------------------------------------------------------------
(* Properties of the report (checked under SpecReport)                      *)

\* a half-width that is the number 0 (and not nan)
IsZeroWidth(e) == e.rad.den # 0 /\ (e.coef = 0 \/ e.rad.num = 0)

\* C11: for a result array of exactly one record load_and_analyze_results returns,
\* and the half-width it reports for score, time, tokens, judge accuracy and human
\* accuracy is 0 each.
C11_SingleRecord ==
    (Len(loaded) = 1 /\ analysis # NoAnalysis) =>
        /\ analysis.kind = "return"
        /\ analysis.n_samples = 1
        /\ IsZeroWidth(analysis.score.error)
        /\ IsZeroWidth(analysis.time.error)
        /\ IsZeroWidth(analysis.tokens.error)
        /\ IsZeroWidth(analysis.judge_accuracy.error)
        /\ IsZeroWidth(analysis.human_accuracy.error)

C11_Witness ==
    /\ Len(loaded) = 1
    /\ loaded[1].human_reasonable
    /\ loaded[1].lm_score_output = 9
    /\ analysis # NoAnalysis
    /\ analysis.judge_accuracy.mean = Rational(100, 1)
    /\ analysis.score.mean = Rational(9, 1)

\* word occurs in text, capitals and small letters taken as equal
OccursAnyCase(text, word) ==
    \E off \in 0..(Len(text) - Len(word)) :
        \A x \in 1..Len(word) :
            \/ text[off + x] = word[x]
            \/ \E u \in 1..26 : LowerLetters[u] = word[x] /\ UpperLetters[u] = text[off + x]

ReasonableVerdict(text) ==
    OccursAnyCase(text, WordReasonable) /\ ~OccursAnyCase(text, WordUnreasonable)

\* C16: a judgment counts as reasonable iff it contains "reasonable" and does not
\* contain "unreasonable", letter case ignored; every other judgment, one with neither
\* word included, counts as unreasonable; the aggregate statistics and the
\* per-problem matrix give the same class to the same judgment.
C16_JudgeClass ==
    /\ analysis # NoAnalysis =>
          /\ Len(analysis.judge_reasonable) = Len(loaded)
          /\ \A x \in 1..Len(loaded) :
                analysis.judge_reasonable[x] = IF ReasonableVerdict(loaded[x].judgment) THEN 1 ELSE 0
    /\ matrices.built =>
          /\ Len(matrices.judge_matrix) = Len(loaded)
          /\ \A x \in 1..Len(loaded) :
                matrices.judge_matrix[x] = IF ReasonableVerdict(loaded[x].judgment) THEN 1 ELSE 0
    /\ (analysis # NoAnalysis /\ matrices.built) =>
          matrices.judge_matrix = analysis.judge_reasonable

C16_Witness ==
    /\ Len(loaded) = 2
    /\ loaded[1].judgment = <<"R">> \o Tail(WordReasonable)
    /\ loaded[2].judgment = <<"m", "a", "y", "b", "e">>
    /\ analysis # NoAnalysis
    /\ matrices.built
    /\ analysis.judge_reasonable = <<1, 0>>
    /\ matrices.judge_matrix = <<1, 0>>

-----------------------------------------------------------------------------
(* Properties of the process (checked under SpecProcess)                    *)

\* C24: the process-wide client configuration (model, endpoint, credential) is the
\* one written at startup and no later operation changes it: no lm_score call, no
\* scorer or ensemble call, no judge call and no benchmark step.
C24_ConfigurationFixed ==
    /\ [](config.lm = PrimaryLm /\ config.settings_lm = PrimaryLm)
    /\ [][config'.settings_lm = config.settings_lm /\ config'.lm = config.lm]_vars

C24_Witness ==
    /\ bpc = "done"
    /\ saved.written
    /\ Len(saved.data) = 30
    /\ config.judge_built
    /\ config.settings_lm = PrimaryLm

=============================================================================
